---- MODULE Spec2Model ----
(***************************************************************************)
(* Model of the power-outage normalization pipeline                        *)
(* (poweroutageanalysis): the value cleaner of util.py, the inference      *)
(* fallback of ai.py, and the load / augment / output driver of            *)
(* poweroutageanalysis.py.                                                 *)
(*                                                                         *)
(* Strings are sequences of one-character strings.  Optional values are    *)
(* records [tag, v]: tag "None" is Python's None.                          *)
(***************************************************************************)
EXTENDS Integers, Sequences, FiniteSets

\* ------------------------------------------------------------------ bounds
\* Longest raw numeric cell, counted in chunks of RawChunks.
MaxChunks == 3
\* Rows read over a run, all files together.
MaxRows == 2
\* Length of the configured year range.
NumYears == 2
\* Longest utility name, counted in chunks of NameChunks.
MaxNameChunks == 5

\* ------------------------------------------------------------ string basics
Str_Approx == <<"A", "p", "p", "r", "o", "x", ".">>
Str_NA == <<"N", "A">>
Str_n_a == <<"n", "/", "a">>
Str_None == <<"N", "o", "n", "e">>
Str_nan == <<"n", "a", "n">>

Digits == {"0", "1", "2", "3", "4", "5", "6", "7", "8", "9"}

DigitVal(c) ==
  CASE c = "0" -> 0 [] c = "1" -> 1 [] c = "2" -> 2 [] c = "3" -> 3
    [] c = "4" -> 4 [] c = "5" -> 5 [] c = "6" -> 6 [] c = "7" -> 7
    [] c = "8" -> 8 [] c = "9" -> 9

\* str.strip(): drop leading and trailing whitespace.
RECURSIVE lstrip(_)
lstrip(s) == IF s # <<>> /\ Head(s) = " " THEN lstrip(Tail(s)) ELSE s

RECURSIVE rstrip(_)
rstrip(s) ==
  IF s # <<>> /\ s[Len(s)] = " " THEN rstrip(SubSeq(s, 1, Len(s) - 1)) ELSE s

strip(s) == rstrip(lstrip(s))

\* str.lower() on the letters the inputs are built from.
LowerChar(c) ==
  CASE c = "A" -> "a" [] c = "N" -> "n" [] OTHER -> c

lower(s) == [i \in 1..Len(s) |-> LowerChar(s[i])]

StartsWith(s, p) == Len(s) >= Len(p) /\ SubSeq(s, 1, Len(p)) = p

\* str.replace(old, ""): every non-overlapping occurrence, left to right.
RECURSIVE str_remove(_, _)
str_remove(s, old) ==
  IF s = <<>> THEN <<>>
  ELSE IF StartsWith(s, old)
       THEN str_remove(SubSeq(s, Len(old) + 1, Len(s)), old)
       ELSE <<Head(s)>> \o str_remove(Tail(s), old)

\* ---------------------------------------------------------------- util.py
None == [tag |-> "None", v |-> 0]
IntValue(n) == [tag |-> "int", v |-> n]
ValueError == [tag |-> "ValueError", v |-> 0]

\* The sentinel list of check_for_na_value.
NaValues == {<<"n", "a">>, <<"n", "/", "a">>, <<"n", "o", "n", "e">>, <<>>}

remove_commas(value) == SelectSeq(value, LAMBDA c : c # ",")

remove_approx(value) == str_remove(value, Str_Approx)

\* value.split("-")[-1]: what follows the last dash, the whole string if none.
extract_highest_from_range(value) ==
  IF \E i \in 1..Len(value) : value[i] = "-"
  THEN LET last == CHOOSE i \in 1..Len(value) :
                     /\ value[i] = "-"
                     /\ \A j \in (i + 1)..Len(value) : value[j] # "-"
       IN  SubSeq(value, last + 1, Len(value))
  ELSE value

\* Mutant: the sentinel test without .lower().
check_for_na_value_case_sensitive(value) == value \in NaValues

\* TRUE when check_for_na_value returns None, FALSE when it returns value.
check_for_na_value_is_none(value) == lower(value) \in NaValues

\* int(str): optional sign, then one or more decimal digits.
IsSign(c) == c = "+" \/ c = "-"

Unsigned(s) == IF s # <<>> /\ IsSign(Head(s)) THEN Tail(s) ELSE s

int_accepts(s) ==
  LET d == Unsigned(strip(s))
  IN  d # <<>> /\ \A i \in 1..Len(d) : d[i] \in Digits

RECURSIVE DigitsValue(_)
DigitsValue(d) ==
  IF d = <<>> THEN 0
  ELSE 10 * DigitsValue(SubSeq(d, 1, Len(d) - 1)) + DigitVal(d[Len(d)])

int_of(s) ==
  LET t == strip(s)
      d == Unsigned(t)
  IN  IF t # <<>> /\ Head(t) = "-" THEN 0 - DigitsValue(d) ELSE DigitsValue(d)

\* clean_num_string: None, an int, or a raised ValueError.
clean_num_string(value_str) ==
  LET s1 == remove_commas(strip(value_str))
      s2 == remove_approx(strip(s1))
      s3 == extract_highest_from_range(strip(s2))
      s4 == strip(s3)
  IN  IF check_for_na_value_is_none(s4) THEN None
      ELSE IF int_accepts(s4) THEN IntValue(int_of(s4))
      ELSE ValueError

\* ------------------------------------------------------------------ ai.py
\* What the inference service can do with one request: raise (network error,
\* timeout, refusal), answer with nothing parsed, or answer with a parsed value.
ApiRaise == [tag |-> "raise", v |-> 0]
ApiUnparsed == [tag |-> "unparsed", v |-> 0]
ApiNumber(n) == [tag |-> "parsed", v |-> n]

\* NumberResponse.number is any int the service chooses.
AiNumbers == {-1, -2, 7}
NumberAnswers == {ApiRaise, ApiUnparsed} \cup {ApiNumber(n) : n \in AiNumbers}

Raise(exc) == [tag |-> exc, v |-> 0]
Exceptions ==
  {"KeyError", "ValueError", "AttributeError", "APIError", "FileNotFoundError",
   "ExceptionGroup"}
IsRaise(x) == x.tag \in Exceptions

\* fix_number: the awaited parse call, then the -1 convention.
fix_number(answer) ==
  IF answer.tag = "raise" THEN Raise("APIError")
  ELSE LET fixed_number ==
             IF answer.tag = "parsed" THEN IntValue(answer.v) ELSE None
       IN  IF fixed_number = IntValue(-1) THEN None ELSE fixed_number

\* ------------------------------------------- record builder: numeric fields
\* try: clean_num_string(cell) / except ValueError: fix_number(cell).
\* fix holds the arguments of the fix_number calls made (none or one).
build_number(cell, answer) ==
  LET c == clean_num_string(cell)
  IN  IF c = ValueError
      THEN [value |-> fix_number(answer), fix |-> <<cell>>]
      ELSE [value |-> c, fix |-> <<>>]

\* ------------------------------------- record builder: region and utility
NoStr == [tag |-> "None", s |-> <<>>]
StrValue(s) == [tag |-> "str", s |-> s]

UpperLetters ==
  {"A", "B", "C", "D", "E", "F", "G", "H", "I", "J", "K", "L", "M", "N", "O",
   "P", "Q", "R", "S", "T", "U", "V", "W", "X", "Y", "Z"}

\* The pattern \(([A-Z]{n})\)$ matches s from position i.
region_matches_at(s, i, n) ==
  /\ i >= 1
  /\ i + n + 1 = Len(s)
  /\ s[i] = "("
  /\ s[Len(s)] = ")"
  /\ \A j \in (i + 1)..(i + n) : s[j] \in UpperLetters

\* Mutant: the pattern with {2,7} in place of {2,6}.
region_search_2_to_7(s) ==
  LET starts == {i \in 1..Len(s) : \E n \in 2..7 : region_matches_at(s, i, n)}
  IN  IF starts = {} THEN 0
      ELSE CHOOSE i \in starts : \A j \in starts : i <= j

\* re.search(r"\(([A-Z]{2,6})\)$", s): match.start() of the leftmost match,
\* 0 when there is none.
region_search(s) ==
  LET starts == {i \in 1..Len(s) : \E n \in 2..6 : region_matches_at(s, i, n)}
  IN  IF starts = {} THEN 0
      ELSE CHOOSE i \in starts : \A j \in starts : i <= j

\* The region / utility_name block of the row loop, for a row without a
\* "NERC Region" column: strip, test the last character, search, cut.
split_region(cell) ==
  LET utility_name == strip(cell)
      start == IF utility_name # <<>> /\ utility_name[Len(utility_name)] = ")"
               THEN region_search(utility_name)
               ELSE 0
  IN  IF start = 0
      THEN [region |-> NoStr, utility_name |-> StrValue(utility_name)]
      ELSE [region |-> StrValue(SubSeq(utility_name, start + 1, Len(utility_name) - 1)),
            utility_name |-> StrValue(strip(SubSeq(utility_name, 1, start - 1)))]

\* The value of a "NERC Region" cell.
Str_RFC == <<"R", "F", "C">>

\* process_xls_file: a "NERC Region" column is used as it is and
\* utility_name is None; process_csv_file always splits.
region_and_utility(has_region_col, cell) ==
  IF has_region_col
  THEN [region |-> StrValue(Str_RFC), utility_name |-> NoStr]
  ELSE split_region(cell)

\* ------------------------------------------------------- source rows
\* Column labels looked up by process_csv_file / process_xls_file.
COL_CUSTOMERS == "Number of Customers Affected"
COL_LOSS == "Loss (megawatts)"
COL_UTILITY == "Utility/Power Pool (NERC Council)"
COL_REGION == "NERC Region"
COL_DATE == "Date"
COL_TIME == "Time"
COL_AREA == "Area"
COL_TYPE == "Type of Disturbance"
COL_RESTORATION == "Restoration Time"

CsvCols ==
  {COL_CUSTOMERS, COL_LOSS, COL_UTILITY, COL_DATE, COL_TIME, COL_AREA,
   COL_TYPE, COL_RESTORATION}

S(c) == <<c>>

\* A row: the columns it has, the text of its two numeric cells, and the kind
\* of value in the cells whose type decides what the builder does.
\*   date: "str" | "datetime" | "None";   time: "str" | "time" | "None"
\*   rest: "text" (free text) | "na" (a sentinel string) | "None" |
\*         "timestamp" (a spreadsheet temporal cell)
\*   util: "str" | "None"
Row(cols, cust, loss, date, time, rest, util) ==
  [cols |-> cols, cust |-> cust, loss |-> loss, date |-> date, time |-> time,
   rest |-> rest, util |-> util]

Num_1_5_to_7 == <<"1", ",", "5", "-", "7">>
Num_Approx_7 == Str_Approx \o <<" ", "7">>
Num_many == <<"x">>

\* Rows a delimited-text file can hold (csv.DictReader: every cell a str, or
\* None where the line is shorter than the header).
CsvRows ==
  { Row(CsvCols, Num_1_5_to_7, Str_NA, "str", "str", "text", "str"),
    Row(CsvCols, Num_many, Num_Approx_7, "str", "str", "na", "str"),
    Row(CsvCols, Str_n_a, S("7"), "str", "str", "None", "str"),
    Row(CsvCols \ {COL_LOSS}, S("7"), <<>>, "str", "str", "text", "str"),
    Row(CsvCols \ {COL_UTILITY}, S("7"), S("7"), "str", "str", "text", "str"),
    Row(CsvCols \ {COL_AREA}, S("7"), S("7"), "str", "str", "text", "str"),
    Row(CsvCols, S("7"), S("7"), "None", "str", "text", "str"),
    Row(CsvCols, S("7"), S("7"), "str", "str", "text", "None") }

\* Rows a spreadsheet can hold (pandas: cells keep their native type; the
\* numeric cells are passed through str()).
XlsRows ==
  { Row(CsvCols, S("7"), Num_many, "datetime", "time", "text", "str"),
    Row((CsvCols \ {COL_UTILITY}) \cup {COL_REGION}, Str_nan, S("7"),
        "datetime", "time", "na", "None"),
    Row(CsvCols, S("7"), S("7"), "str", "time", "text", "str"),
    Row(CsvCols \ {COL_DATE}, S("7"), S("7"), "None", "time", "text", "str"),
    Row(CsvCols, S("7"), S("7"), "datetime", "str", "text", "str"),
    Row(CsvCols, S("7"), S("7"), "datetime", "time", "timestamp", "str"),
    Row(CsvCols \ {COL_CUSTOMERS}, <<>>, S("7"), "datetime", "time", "text",
        "str") }

\* ---------------------------------------------------------- types.py
NoDatetime == [tag |-> "None", v |-> 0]

\* PowerOutageEvent as built: the derived fields start unset.
PowerOutageEvent(customers_affected, demand_loss_mw, restoration_time) ==
  [customers_affected |-> customers_affected,
   demand_loss_mw |-> demand_loss_mw,
   restoration_time |-> restoration_time,
   start_datetime |-> NoDatetime,
   restored_datetime |-> NoDatetime,
   duration_minutes |-> None]

\* pydantic validation of the str fields: date is a required str, time and
\* restoration_time are str or None.
event_validates(date, time, rest) ==
  /\ date = "str"
  /\ time \in {"str", "None"}
  /\ rest \in {"text", "na", "None"}

\* Outcomes of building one row.
Appended(event) == [kind |-> "append", exc |-> "", event |-> event]
Dropped == [kind |-> "drop", exc |-> "", event |-> PowerOutageEvent(None, None, "None")]
Raised(exc) == [kind |-> "raise", exc |-> exc, event |-> PowerOutageEvent(None, None, "None")]

\* The numeric column of a row: row[col] raises KeyError outside any handler
\* that catches it; text is the cell as handed to clean_num_string.
numeric_column(row, col, text, answer) ==
  IF col \notin row.cols THEN [value |-> Raise("KeyError"), fix |-> <<>>]
  ELSE build_number(text, answer)

\* The keyword arguments of PowerOutageEvent(...) and the construction, inside
\* try / except KeyError / except ValueError.
construct_event(row, customers_affected, demand_loss_mw, date, time) ==
  IF {COL_DATE, COL_TIME, COL_AREA, COL_TYPE, COL_RESTORATION} \subseteq row.cols
     /\ event_validates(date, time, row.rest)
  THEN Appended(PowerOutageEvent(customers_affected, demand_loss_mw, row.rest))
  ELSE Dropped

\* process_csv_file, the body of the loop over rows.
csv_row(row, answer1, answer2) ==
  LET customers_affected == numeric_column(row, COL_CUSTOMERS, row.cust, answer1).value
      demand_loss_mw == numeric_column(row, COL_LOSS, row.loss, answer2).value
  IN  IF IsRaise(customers_affected) THEN Raised(customers_affected.tag)
      ELSE IF IsRaise(demand_loss_mw) THEN Raised(demand_loss_mw.tag)
      ELSE IF COL_UTILITY \notin row.cols THEN Raised("KeyError")
      ELSE IF row.util # "str" THEN Raised("AttributeError")
      ELSE construct_event(row, customers_affected, demand_loss_mw,
                           row.date, row.time)

\* process_xls_file, the body of the loop over rows.
xls_row(row, answer1, answer2) ==
  LET customers_affected == numeric_column(row, COL_CUSTOMERS, row.cust, answer1).value
      demand_loss_mw == numeric_column(row, COL_LOSS, row.loss, answer2).value
  IN  IF COL_DATE \in row.cols /\ row.date # "datetime" THEN Dropped
      ELSE IF IsRaise(customers_affected) THEN Raised(customers_affected.tag)
      ELSE IF IsRaise(demand_loss_mw) THEN Raised(demand_loss_mw.tag)
      ELSE IF COL_REGION \notin row.cols /\ COL_UTILITY \notin row.cols
           THEN Raised("KeyError")
      ELSE IF COL_REGION \notin row.cols /\ row.util # "str"
           THEN Raised("AttributeError")
      ELSE IF COL_DATE \in row.cols /\ COL_TIME \in row.cols /\ row.time # "time"
           THEN Raised("AttributeError")
      ELSE construct_event(row, customers_affected, demand_loss_mw, "str", "str")

\* ------------------------------------------------------------ the state
VARIABLES
  pc,         \* where the run is: "load", "phase1", "phase2", "duration",
              \* "done", "failed"
  failure,    \* the exception that ended the run, "" if none
  year,       \* index in YEAR_RANGE of the year load_data is at
  listing,    \* which of the year's two files os.listdir showed
  row,        \* the row the loop over rows is at
  reading,    \* the file being processed: "none", "xls", "csv"
  rowCount,   \* rows read so far
  events,     \* the PowerOutageEvent objects, by identity 1, 2, ...
  data,       \* self.data: a list of references to events
  task,       \* the tasks of the running TaskGroup, one per event
  calls,      \* per event and derived field, the inference request made
  results,    \* events returned by phase 2 still to be given a duration
  output,     \* the rows of the normalized CSV, <<"none">> until written
  raw,        \* value cleaner alone: the raw cell
  cleaned,    \* value cleaner alone: what clean_num_string did with raw
  numField,   \* value cleaner alone: the numeric field the builder got
  fixCalls,   \* value cleaner alone: arguments of the fix_number calls
  nameRaw,    \* region split alone: the raw utility cell
  regionCol,  \* region split alone: the row has a "NERC Region" column
  region,     \* region split alone: the region the builder settled on
  utilityName \* region split alone: the utility_name the builder settled on

vars ==
  <<pc, failure, year, listing, row, reading, rowCount, events, data, task,
    calls, results, output, raw, cleaned, numField, fixCalls, nameRaw,
    regionCol, region, utilityName>>

numberVars == <<raw, cleaned, numField, fixCalls>>
regionVars == <<nameRaw, regionCol, region, utilityName>>
cleanerVars == <<numberVars, regionVars>>
loadVars == <<year, listing, row, reading, rowCount>>

Years == 1..NumYears
NotWritten == <<"none">>
\* listing before load_data has looked a year up.
NotListed == {"unlisted"}
\* row outside the loop over rows.
NoRow == Row({}, <<>>, <<>>, "None", "None", "None", "None")
\* calls of an event: no request made for either field; the counts are the
\* requests issued for each.
NoCalls ==
  [start |-> "none", restored |-> "none", startCount |-> 0, restoredCount |-> 0]

Init ==
  /\ pc = "load"
  /\ failure = ""
  /\ year = 1
  /\ listing = NotListed
  /\ row = NoRow
  /\ reading = "none"
  /\ rowCount = 0
  /\ events = <<>>
  /\ data = <<>>
  /\ task = <<>>
  /\ calls = <<>>
  /\ results = {}
  /\ output = NotWritten
  /\ raw = <<>>
  /\ cleaned = None
  /\ numField = None
  /\ fixCalls = <<>>
  /\ nameRaw = <<>>
  /\ regionCol = FALSE
  /\ region = NoStr
  /\ utilityName = NoStr

\* An uncaught exception ends the run: nothing after it executes.
Fail(exc) ==
  /\ pc' = "failed"
  /\ failure' = exc

\* ---------------------------------------------------------- load_data
\* Mutant: a year with no file is skipped instead of raising.
load_year_skips_missing(files) ==
  /\ pc = "load"
  /\ reading = "none"
  /\ year \in Years
  /\ listing' = files
  /\ IF "xls" \in files
     THEN reading' = "xls" /\ UNCHANGED year
     ELSE IF "csv" \in files
          THEN reading' = "csv" /\ UNCHANGED year
          ELSE reading' = "none" /\ year' = year + 1
  /\ UNCHANGED <<pc, failure, row, rowCount, events, data, task, calls, results, output>>
  /\ UNCHANGED cleanerVars

\* One turn of the loop over YEAR_RANGE: pick the year's file, spreadsheet
\* first, or raise FileNotFoundError.  files is what os.listdir returned for
\* this year: the listing is read once and each year's entry is consulted
\* once, so it is drawn when the year is reached.
load_year(files) ==
  /\ pc = "load"
  /\ reading = "none"
  /\ year \in Years
  /\ listing' = files
  /\ IF "xls" \in files
     THEN reading' = "xls" /\ UNCHANGED <<pc, failure>>
     ELSE IF "csv" \in files
          THEN reading' = "csv" /\ UNCHANGED <<pc, failure>>
          ELSE reading' = "none" /\ Fail("FileNotFoundError")
  /\ UNCHANGED <<year, row, rowCount, events, data, task, calls, results, output>>
  /\ UNCHANGED cleanerVars

\* What one row does to the run: append its event, leave the record set as
\* it is, or end the run with the exception it raised.
apply_row(r, o) ==
  /\ row' = r
  /\ rowCount' = rowCount + 1
  /\ CASE o.kind = "append" ->
            /\ events' = Append(events, o.event)
            /\ data' = Append(data, Len(events) + 1)
            /\ calls' = Append(calls, NoCalls)
            /\ UNCHANGED <<pc, failure>>
       [] o.kind = "drop" -> UNCHANGED <<events, data, calls, pc, failure>>
       [] o.kind = "raise" -> Fail(o.exc) /\ UNCHANGED <<events, data, calls>>
  /\ UNCHANGED <<year, listing, reading, task, results, output>>
  /\ UNCHANGED cleanerVars

process_csv_file_row ==
  /\ pc = "load"
  /\ reading = "csv"
  /\ rowCount < MaxRows
  /\ \E r \in CsvRows, answer1 \in NumberAnswers, answer2 \in NumberAnswers :
       apply_row(r, csv_row(r, answer1, answer2))

process_xls_file_row ==
  /\ pc = "load"
  /\ reading = "xls"
  /\ rowCount < MaxRows
  /\ \E r \in XlsRows, answer1 \in NumberAnswers, answer2 \in NumberAnswers :
       apply_row(r, xls_row(r, answer1, answer2))

\* The loop over rows ends: on to the next year.
end_of_file ==
  /\ pc = "load"
  /\ reading # "none"
  /\ reading' = "none"
  /\ listing' = NotListed
  /\ row' = NoRow
  /\ year' = year + 1
  /\ UNCHANGED <<pc, failure, rowCount, events, data, task, calls, results, output>>
  /\ UNCHANGED cleanerVars

\* ---------------------------------------------- augment_data_with_ai
\* DateResponse.datetime is any str the service chooses: ISO 8601 (the
\* instant, in seconds) or some other text.
Iso(t) == [tag |-> "iso", v |-> t]
NotIso == [tag |-> "text", v |-> 0]

DateRaise == [tag |-> "raise", d |-> NoDatetime]
DateUnparsed == [tag |-> "unparsed", d |-> NoDatetime]
DateParsed(d) == [tag |-> "parsed", d |-> d]

StartAnswers == {DateRaise, DateUnparsed, DateParsed(Iso(90))}
RestoredAnswers ==
  {DateRaise, DateUnparsed, DateParsed(Iso(0)), DateParsed(Iso(150)),
   DateParsed(NotIso)}

Ids == DOMAIN events
Unfinished == {"created", "awaiting"}

\* add_start_datetime after its await: the event it returns.
add_start_datetime(event, answer) ==
  IF answer.tag = "parsed"
  THEN [event EXCEPT !.start_datetime = answer.d]
  ELSE event

\* add_restored_datetime up to its await: check_for_na_value on the raw
\* restoration_time, which calls .lower() on it.
add_restored_datetime_check(event) ==
  CASE event.restoration_time = "None" -> "AttributeError"
    [] event.restoration_time = "na" -> "return"
    [] OTHER -> "await"

\* add_restored_datetime after its await: the event it returns.
add_restored_datetime(event, answer) ==
  IF answer.tag = "parsed"
  THEN [event EXCEPT !.restored_datetime = answer.d]
  ELSE event

\* A task of a TaskGroup ends with an exception: the group cancels every
\* task that has not finished.
task_raises(i, exc) ==
  task' = [j \in DOMAIN task |->
             IF j = i THEN exc
             ELSE IF task[j] \in Unfinished THEN "cancelled" ELSE task[j]]

\* Mutant: every task is created on the first event of self.data.
task_event_shared(k) == data[1]

\* for event in self.data: tg.create_task(...(event)): the k-th task is
\* created on the k-th event of self.data and keeps that reference.
task_event(k) == data[k]

create_tasks == [k \in 1..Len(data) |-> "created"]

\* load_data has returned: asyncio.run(augment_data_with_ai()) creates the
\* tasks of the first TaskGroup.  rowCount only bounds the input, so it is
\* dropped here.
enter_phase1 ==
  /\ pc = "load"
  /\ reading = "none"
  /\ year \notin Years
  /\ pc' = "phase1"
  /\ task' = create_tasks
  /\ rowCount' = 0
  /\ UNCHANGED <<failure, year, listing, row, reading, events, data, calls, results, output>>
  /\ UNCHANGED cleanerVars

\* The event loop runs a created task up to its first await, in creation
\* order.
start_task(i) ==
  /\ pc \in {"phase1", "phase2"}
  /\ i \in DOMAIN task
  /\ task[i] = "created"
  /\ \A j \in DOMAIN task : j < i => task[j] # "created"
  /\ LET e == task_event(i)
     IN  IF pc = "phase1"
         THEN /\ task' = [task EXCEPT ![i] = "awaiting"]
              /\ calls' = [calls EXCEPT ![e].start = "pending",
                                        ![e].startCount = @ + 1]
         ELSE LET check == add_restored_datetime_check(events[e])
              IN  CASE check = "AttributeError" ->
                         task_raises(i, "AttributeError") /\ UNCHANGED calls
                    [] check = "return" ->
                         task' = [task EXCEPT ![i] = "done"] /\ UNCHANGED calls
                    [] OTHER ->
                         /\ task' = [task EXCEPT ![i] = "awaiting"]
                         /\ calls' = [calls EXCEPT ![e].restored = "pending",
                                                   ![e].restoredCount = @ + 1]
  /\ UNCHANGED <<pc, failure, events, data, results, output>>
  /\ UNCHANGED loadVars
  /\ UNCHANGED cleanerVars

\* The service answers the request of task i, or the request fails.
task_resumes(i, answer) ==
  /\ i \in DOMAIN task
  /\ task[i] = "awaiting"
  /\ calls' = IF pc = "phase1"
               THEN [calls EXCEPT ![task_event(i)].start = answer.tag]
               ELSE [calls EXCEPT ![task_event(i)].restored = answer.tag]
  /\ IF answer.tag = "raise"
     THEN task_raises(i, "APIError") /\ UNCHANGED events
     ELSE /\ task' = [task EXCEPT ![i] = "done"]
          /\ events' =
               [events EXCEPT ![task_event(i)] =
                  IF pc = "phase1" THEN add_start_datetime(@, answer)
                  ELSE add_restored_datetime(@, answer)]
  /\ UNCHANGED <<pc, failure, data, results, output>>
  /\ UNCHANGED loadVars
  /\ UNCHANGED cleanerVars

phase1_response ==
  /\ pc = "phase1"
  /\ \E i \in DOMAIN task, answer \in StartAnswers : task_resumes(i, answer)

phase2_response ==
  /\ pc = "phase2"
  /\ \E i \in DOMAIN task, answer \in RestoredAnswers : task_resumes(i, answer)

\* Mutant: the group exits as soon as one task has finished.
first_task_finished ==
  DOMAIN task = {} \/ \E i \in DOMAIN task : task[i] \notin Unfinished

all_tasks_finished == \A i \in DOMAIN task : task[i] \notin Unfinished
some_task_failed == \E i \in DOMAIN task : task[i] \in Exceptions

\* async with asyncio.TaskGroup() exits once every task has finished; it
\* raises an ExceptionGroup if one of them raised.
exit_phase1 ==
  /\ pc = "phase1"
  /\ all_tasks_finished
  /\ IF some_task_failed
     THEN Fail("ExceptionGroup") /\ UNCHANGED task
     ELSE pc' = "phase2" /\ task' = create_tasks /\ UNCHANGED failure
  /\ UNCHANGED <<events, data, calls, results, output>>
  /\ UNCHANGED loadVars
  /\ UNCHANGED cleanerVars

\* The second group exits; results takes the events the tasks returned and
\* self.data is emptied.
exit_phase2 ==
  /\ pc = "phase2"
  /\ all_tasks_finished
  /\ IF some_task_failed
     THEN Fail("ExceptionGroup") /\ UNCHANGED <<results, data>>
     ELSE /\ pc' = "duration"
          /\ results' = {task_event(k) : k \in DOMAIN task}
          /\ data' = <<>>
          /\ UNCHANGED failure
  /\ UNCHANGED <<events, task, calls, output>>
  /\ UNCHANGED loadVars
  /\ UNCHANGED cleanerVars

\* Mutant: floor division (//) in place of int(x / 60).
py_int_div_floor(a, b) == a \div b

\* int(x): truncation toward zero.
py_int_div(a, b) == IF a >= 0 THEN a \div b ELSE 0 - ((0 - a) \div b)

SECONDS_PER_MINUTE == 60

\* get_duration_minutes: the event it returns, or the ValueError of
\* datetime.fromisoformat.
get_duration_minutes(event) ==
  IF event.start_datetime = NoDatetime \/ event.restored_datetime = NoDatetime
  THEN [exc |-> "", event |-> event]
  ELSE IF event.start_datetime.tag # "iso" \/ event.restored_datetime.tag # "iso"
  THEN [exc |-> "ValueError", event |-> event]
  ELSE [exc |-> "",
        event |->
          [event EXCEPT !.duration_minutes =
             IntValue(py_int_div(event.restored_datetime.v - event.start_datetime.v,
                                 SECONDS_PER_MINUTE))]]

\* One turn of the loop over results, a set of tasks: any order.
duration_step ==
  /\ pc = "duration"
  /\ \E i \in results :
       LET r == get_duration_minutes(events[i])
       IN  IF r.exc # ""
           THEN Fail(r.exc) /\ UNCHANGED <<events, data, results>>
           ELSE /\ events' = [events EXCEPT ![i] = r.event]
                /\ data' = Append(data, i)
                /\ results' = results \ {i}
                /\ UNCHANGED <<pc, failure>>
  /\ UNCHANGED <<task, calls, output>>
  /\ UNCHANGED loadVars
  /\ UNCHANGED cleanerVars

\* ------------------------------------------------------ output_results
output_results ==
  /\ pc = "duration"
  /\ results = {}
  /\ output' = [k \in 1..Len(data) |-> events[data[k]]]
  /\ pc' = "done"
  /\ UNCHANGED <<failure, events, data, task, calls, results>>
  /\ UNCHANGED loadVars
  /\ UNCHANGED cleanerVars

Next ==
  \/ \E files \in SUBSET {"xls", "csv"} : load_year(files)
  \/ process_csv_file_row
  \/ process_xls_file_row
  \/ end_of_file
  \/ enter_phase1
  \/ \E i \in DOMAIN task : start_task(i)
  \/ phase1_response
  \/ phase2_response
  \/ exit_phase1
  \/ exit_phase2
  \/ duration_step
  \/ output_results

Spec == Init /\ [][Next]_vars

\* ------------------------------------------- the value cleaner alone
\* Raw numeric cells: up to MaxChunks pieces, each a decoration, a separator,
\* a numeral, a sentinel or unparseable text.
RawChunks ==
  { Str_Approx, <<" ">>, <<"-">>, <<",">>, <<"7">>, <<"1", ",", "5">>,
    Str_NA, Str_n_a, Str_None, <<"x">> }

RECURSIVE Flatten(_)
Flatten(chunks) ==
  IF chunks = <<>> THEN <<>> ELSE Head(chunks) \o Flatten(Tail(chunks))

RawStrings ==
  { Flatten(chunks) : chunks \in UNION { [1..n -> RawChunks] : n \in 0..MaxChunks } }

InitClean ==
  /\ pc = "clean"
  /\ raw \in RawStrings
  /\ cleaned = None
  /\ numField = None
  /\ fixCalls = <<>>
  /\ nameRaw = <<>>
  /\ regionCol = FALSE
  /\ region = NoStr
  /\ utilityName = NoStr
  /\ failure = ""
  /\ year = 1
  /\ listing = NotListed
  /\ row = NoRow
  /\ reading = "none"
  /\ rowCount = 0
  /\ events = <<>>
  /\ data = <<>>
  /\ task = <<>>
  /\ calls = <<>>
  /\ results = {}
  /\ output = NotWritten

\* The record builder resolves one numeric cell: clean_num_string, and
\* fix_number when it raised ValueError.
build_numeric_field ==
  /\ pc = "clean"
  /\ \E answer \in NumberAnswers :
       LET b == build_number(raw, answer)
       IN  /\ cleaned' = clean_num_string(raw)
           /\ numField' = b.value
           /\ fixCalls' = b.fix
  /\ pc' = "cleaned"
  /\ UNCHANGED <<raw, failure, events, data, task, calls, results, output>>
  /\ UNCHANGED loadVars
  /\ UNCHANGED regionVars

NextClean == build_numeric_field

SpecClean == InitClean /\ [][NextClean]_vars

\* =====================================================================
\* Properties
\* =====================================================================
StartCallFailed(i) == calls[i].start \in {"raise", "unparsed"}
StartCallCompleted(i) == calls[i].start \in {"parsed", "unparsed"}
RestoredCallSettled(i) == calls[i].restored \in {"none", "parsed", "unparsed"}
SomeCallRaised ==
  \E i \in Ids : calls[i].start = "raise" \/ calls[i].restored = "raise"

\* C1: an inference call that fails is caught at that call: no sibling task
\* is cancelled and the phase does not abort with the group's exception.
C1_InferenceFailureIsolated ==
  SomeCallRaised =>
    /\ \A j \in DOMAIN task : task[j] # "cancelled"
    /\ failure # "ExceptionGroup"

\* augment_data_with_ai is over: it returned, or it raised.
AugmentationEnded == pc = "done" \/ failure \in {"ExceptionGroup", "ValueError"}

\* C2 (for the derived field start_datetime): once augmentation is over the
\* record set holds each of the N input records exactly once, and the records
\* with start_datetime unset are exactly those whose inference call failed.
C2_ExactCardinalityAndUnsetFields ==
  AugmentationEnded =>
    /\ Len(data) = Len(events)
    /\ {data[k] : k \in 1..Len(data)} = Ids
    /\ \A i \in Ids :
         events[i].start_datetime = NoDatetime <=> StartCallFailed(i)

Phase2Started ==
  \/ pc = "phase2" /\ \E i \in DOMAIN task : task[i] # "created"
  \/ \E i \in Ids : calls[i].restored # "none"
  \/ pc \in {"duration", "done"}

DurationStarted ==
  \/ pc \in {"duration", "done"}
  \/ \E i \in Ids : events[i].duration_minutes # None

\* C3: no add_restored_datetime call starts before every add_start_datetime
\* call has completed, and the duration step runs only once both phases have
\* completed for every record (no request of either phase is still pending).
C3_PhaseBarrier ==
  /\ Phase2Started => \A i \in Ids : StartCallCompleted(i)
  /\ DurationStarted =>
       \A i \in Ids :
         /\ StartCallCompleted(i)
         /\ RestoredCallSettled(i)
         /\ task[i] = "done"

BothDatetimesSet(e) ==
  e.start_datetime # NoDatetime /\ e.restored_datetime # NoDatetime

C3_Witness ==
  /\ pc = "duration"
  /\ Len(events) >= 2
  /\ Len(data) = 1
  /\ \A i \in Ids : BothDatetimesSet(events[i])
  /\ events[data[1]].duration_minutes # None

SecondsBetween(e) == e.restored_datetime.v - e.start_datetime.v

\* C4 as claimed: after augmentation duration_minutes is set exactly when both
\* datetimes are, and is then floor((restored - start) / 60 s).
C4_DurationIsFloor ==
  pc = "done" =>
    \A i \in Ids :
      LET e == events[i]
      IN  /\ e.duration_minutes # None <=> BothDatetimesSet(e)
          /\ e.duration_minutes # None =>
               e.duration_minutes = IntValue(SecondsBetween(e) \div 60)

\* q is d / 60 rounded toward zero.
IsTruncatedMinutes(q, d) ==
  /\ d >= 0 => 60 * q <= d /\ d < 60 * (q + 1)
  /\ d < 0 => 60 * (q - 1) < d /\ d <= 60 * q

\* C4 as amended: after augmentation duration_minutes is set exactly when both
\* datetimes are, and is then (restored - start) / 60 s rounded toward zero.
C4_DurationIsTruncated ==
  pc = "done" =>
    \A i \in Ids :
      LET e == events[i]
      IN  /\ e.duration_minutes # None <=> BothDatetimesSet(e)
          /\ e.duration_minutes # None =>
               /\ e.duration_minutes.tag = "int"
               /\ IsTruncatedMinutes(e.duration_minutes.v, SecondsBetween(e))

\* A restoration 90 s before the start: neither positive nor whole minutes.
C4_Witness ==
  /\ pc = "done"
  /\ \E i \in Ids :
       /\ BothDatetimesSet(events[i])
       /\ SecondsBetween(events[i]) = -90
       /\ events[i].duration_minutes = IntValue(-1)
  /\ \E i \in Ids :
       /\ ~BothDatetimesSet(events[i])
       /\ events[i].duration_minutes = None

\* C5: a year with neither file ends the run with FileNotFoundError, whatever
\* was ingested before; augmentation is never entered and nothing is written;
\* and a year with both files is read from the spreadsheet.
C5_MissingSourceIsFatal ==
  /\ listing = {} => pc = "failed" /\ failure = "FileNotFoundError"
  /\ failure = "FileNotFoundError" =>
       /\ task = <<>>
       /\ \A i \in Ids : calls[i] = NoCalls
       /\ results = {}
       /\ output = NotWritten
  /\ "xls" \in listing => reading = "xls"
  /\ reading = "csv" => listing = {"csv"}

C5_Witness ==
  /\ failure = "FileNotFoundError"
  /\ year > 1
  /\ Len(data) >= 1
  /\ output = NotWritten

\* The columns the builder looks up in a row of the file being read.
ExpectedCols(r, kind) ==
  IF kind = "xls" /\ COL_REGION \in r.cols THEN CsvCols \ {COL_UTILITY} ELSE CsvCols

\* A row that lacks an expected column, or holds a value the record's fields
\* cannot take.
StructuralRowError(r, kind) ==
  \/ ~(ExpectedCols(r, kind) \subseteq r.cols)
  \/ kind = "csv" /\ ~event_validates(r.date, r.time, r.rest)
  \/ kind = "xls" /\ r.rest \notin {"text", "na", "None"}

\* C6: a row with a structural error is dropped and nothing else happens: the
\* record set is unchanged and the run goes on.
C6_StructuralErrorDropsRowOnly ==
  [][(rowCount' = rowCount + 1 /\ StructuralRowError(row', reading)) =>
       (events' = events /\ data' = data /\ pc' = "load" /\ failure' = "")]_vars

\* C7: a failing fix_number call never ends the run (the field is left unset
\* and the record is built); only the missing source does.
C7_FallbackFailureNotFatal == failure # "APIError"

NonNegativeOrAbsent(x) == x = None \/ (x.tag = "int" /\ x.v >= 0)

\* C8: customers_affected and demand_loss_mw of every record are absent or a
\* non-negative integer, at every point of the run.
C8_NumericFieldsNonNegative ==
  \A i \in Ids :
    /\ NonNegativeOrAbsent(events[i].customers_affected)
    /\ NonNegativeOrAbsent(events[i].demand_loss_mw)

\* The normal form of a raw cell: trimmed, commas and "Approx." removed, cut
\* to what follows the last hyphen, trimmed.
RECURSIVE AfterLastHyphen(_)
AfterLastHyphen(s) ==
  IF \E i \in 1..Len(s) : s[i] = "-"
  THEN AfterLastHyphen(Tail(s))
  ELSE s

NormalForm(s) ==
  strip(AfterLastHyphen(
    strip(str_remove(strip(SelectSeq(strip(s), LAMBDA c : c # ",")), Str_Approx))))

Sentinels == {<<"n", "a">>, <<"n", "/", "a">>, <<"n", "o", "n", "e">>, <<>>}
IsSentinel(s) == \E t \in Sentinels :
  /\ Len(t) = Len(s)
  /\ \A i \in 1..Len(s) : LowerChar(s[i]) = t[i]

IsNumeral(s) == s # <<>> /\ \A i \in 1..Len(s) : s[i] \in Digits

\* C9: clean_num_string returns None, without raising, for every input whose
\* normal form is a sentinel in any letter case; it raises ValueError for every
\* other input that is not a base-10 integer; and the record builder calls
\* fix_number exactly when the cleaner raised, never when it returned None or
\* an integer.
C9_SentinelIsNoneAndOnlyErrorsFallBack ==
  pc = "cleaned" =>
    /\ IsSentinel(NormalForm(raw)) => cleaned = None /\ fixCalls = <<>>
    /\ (~IsSentinel(NormalForm(raw)) /\ ~IsNumeral(NormalForm(raw))) =>
         cleaned = ValueError
    /\ fixCalls # <<>> <=> cleaned = ValueError
    /\ cleaned # ValueError => numField = cleaned

\* "Approx. NA": a decorated, upper-case sentinel.
C9_Witness ==
  /\ pc = "cleaned"
  /\ raw = Str_Approx \o <<" ">> \o Str_NA
  /\ cleaned = None
  /\ numField = None
  /\ fixCalls = <<>>

\* A raw cell that is a range of two numerals, decorations aside.
Undecorated(s) == str_remove(SelectSeq(s, LAMBDA c : c # ","), Str_Approx)

HyphenCount(s) == Cardinality({i \in 1..Len(s) : s[i] = "-"})

RangeLow(s) ==
  LET u == Undecorated(s)
      h == CHOOSE i \in 1..Len(u) : u[i] = "-"
  IN  strip(SubSeq(u, 1, h - 1))

RangeHigh(s) ==
  LET u == Undecorated(s)
      h == CHOOSE i \in 1..Len(u) : u[i] = "-"
  IN  strip(SubSeq(u, h + 1, Len(u)))

IsNumericRange(s) ==
  /\ HyphenCount(Undecorated(s)) = 1
  /\ IsNumeral(RangeLow(s))
  /\ IsNumeral(RangeHigh(s))

Max(a, b) == IF a >= b THEN a ELSE b

\* C10: for a range of two numerals, with or without commas and "Approx.",
\* clean_num_string returns the upper bound of the range, whichever endpoint
\* is written first.
C10_RangeGivesUpperBound ==
  (pc = "cleaned" /\ IsNumericRange(raw)) =>
    cleaned = IntValue(Max(DigitsValue(RangeLow(raw)), DigitsValue(RangeHigh(raw))))

\* ------------------------------------------- the region split alone
\* Utility cells: up to MaxNameChunks pieces of name text, blanks,
\* parentheses and letter runs of either case.
NameChunks ==
  { <<" ">>, <<"(">>, <<")">>, <<"A">>, <<"B", "C">>, <<"D", "E", "F">>,
    <<"b", "c">> }

NameStrings ==
  { Flatten(chunks) : chunks \in UNION { [1..n -> NameChunks] : n \in 0..MaxNameChunks } }

InitRegion ==
  /\ pc = "split"
  /\ nameRaw \in NameStrings
  /\ regionCol = FALSE
  /\ region = NoStr
  /\ utilityName = NoStr
  /\ raw = <<>>
  /\ cleaned = None
  /\ numField = None
  /\ fixCalls = <<>>
  /\ failure = ""
  /\ year = 1
  /\ listing = NotListed
  /\ row = NoRow
  /\ reading = "none"
  /\ rowCount = 0
  /\ events = <<>>
  /\ data = <<>>
  /\ task = <<>>
  /\ calls = <<>>
  /\ results = {}
  /\ output = NotWritten

\* The record builder settles region and utility_name of one row.
build_region_and_utility ==
  /\ pc = "split"
  /\ \E has_region_col \in BOOLEAN :
       LET r == region_and_utility(has_region_col, nameRaw)
       IN  /\ regionCol' = has_region_col
           /\ region' = r.region
           /\ utilityName' = r.utility_name
  /\ pc' = "split_done"
  /\ UNCHANGED <<nameRaw, failure, events, data, task, calls, results, output>>
  /\ UNCHANGED loadVars
  /\ UNCHANGED numberVars

NextRegion == build_region_and_utility

SpecRegion == InitRegion /\ [][NextRegion]_vars

\* The trimmed name ends in "(", n upper-case letters, ")".
EndsInCode(t, n) ==
  /\ Len(t) >= n + 2
  /\ t[Len(t)] = ")"
  /\ t[Len(t) - n - 1] = "("
  /\ \A j \in (Len(t) - n)..(Len(t) - 1) : t[j] \in UpperLetters

\* C11: without a discrete region column, the split succeeds exactly when the
\* trimmed name ends in a parenthetical of 2 to 6 upper-case letters; region
\* is then that code and utility_name the trimmed name without the
\* parenthetical and the blanks before it.  Otherwise (a lower-case code, 7 or
\* more letters, 1 letter, no parenthetical) region stays unset and
\* utility_name is the trimmed name, as it was.
C11_RegionSplit ==
  (pc = "split_done" /\ ~regionCol) =>
    LET t == strip(nameRaw)
    IN  IF \E n \in 2..6 : EndsInCode(t, n)
        THEN \E n \in 2..6 :
               /\ EndsInCode(t, n)
               /\ region = StrValue(SubSeq(t, Len(t) - n, Len(t) - 1))
               /\ utilityName = StrValue(rstrip(SubSeq(t, 1, Len(t) - n - 2)))
        ELSE region = NoStr /\ utilityName = StrValue(t)

\* "A (BC)": a code after a name and a blank, split into "BC" and "A".
C11_Witness ==
  /\ pc = "split_done"
  /\ ~regionCol
  /\ nameRaw = <<"A", " ", "(", "B", "C", ")">>
  /\ region = StrValue(<<"B", "C">>)
  /\ utilityName = StrValue(<<"A">>)

\* The task of the restoration phase that owns event i ended with the
\* AttributeError of check_for_na_value.
OwnerRaisedAttributeError(i) ==
  \E k \in DOMAIN task \cap DOMAIN data :
    task_event(k) = i /\ task[k] = "AttributeError"

\* C12: in the restoration phase the service is called for a record if and
\* only if its restoration_time is not a "not available" sentinel; a record
\* whose restoration_time is a sentinel or absent gets no call, keeps
\* restored_datetime unset, and its operation completes without raising.
C12_SentinelOrAbsentSkipsCall ==
  \A i \in Ids :
    /\ calls[i].restored # "none" => events[i].restoration_time = "text"
    /\ (pc \in {"duration", "done"} /\ events[i].restoration_time = "text") =>
         calls[i].restored # "none"
    /\ events[i].restoration_time \in {"na", "None"} =>
         /\ calls[i].restored = "none"
         /\ events[i].restored_datetime = NoDatetime
         /\ ~OwnerRaisedAttributeError(i)

\* The operations of the running phase that have not finished.
InFlight ==
  IF pc \in {"phase1", "phase2"}
  THEN {k \in DOMAIN task : task[k] \in Unfinished}
  ELSE {}

\* C13: within one run of augment_data_with_ai at most one request is issued
\* per record and derived datetime field, also after a failed one, and the
\* unfinished operations of a phase own pairwise distinct records.
C13_OneCallPerFieldAndOneOwner ==
  /\ \A i \in Ids : calls[i].startCount <= 1 /\ calls[i].restoredCount <= 1
  /\ \A i \in Ids : calls[i].start = "raise" => calls[i].startCount = 1
  /\ \A i \in Ids : calls[i].restored = "raise" => calls[i].restoredCount = 1
  /\ \A k, l \in InFlight : k # l => task_event(k) # task_event(l)

\* Two requests of the restoration phase in flight at once, one per record,
\* after one request per record in the first phase.
C13_Witness ==
  /\ pc = "phase2"
  /\ Len(events) = 2
  /\ \A k \in DOMAIN task : task[k] = "awaiting"
  /\ \A i \in Ids : calls[i].startCount = 1 /\ calls[i].restoredCount = 1

====
